---- MODULE Spec2Model ----
(***************************************************************************)
(* Trading-day synchronisation and indicator pipeline of analystBot:       *)
(* scripts/update_db.py, scripts/calculate_indicators.py,                  *)
(* scripts/run_live.py, scripts/send_telegram.py, scripts/main_script.py   *)
(* and data/setup_db.py.                                                   *)
(*                                                                         *)
(* Dates are day numbers (one integer per calendar day).  Prices held by   *)
(* the store are integers in cents (the code rounds every price to two     *)
(* decimals); prices returned by the provider are integers in tenths of a  *)
(* cent.  Indicator values are integers in hundredths of a percent (the    *)
(* code rounds them to two decimals).  A nullable value is <<>> (NULL /    *)
(* None) or <<v>>.                                                         *)
(***************************************************************************)
EXTENDS Integers, Sequences, FiniteSets, TLC

VARIABLES
    today,              \* datetime.now().date()
    listed,             \* provider: first day for which it has data, per symbol
    store,              \* rows of table stock_data
    script,             \* the script process that is running, or "none"
    pc,                 \* position inside the running script
    i,                  \* index of the current symbol in the script's symbol loop
    missing_dates,      \* result of the latest gap detection
    trading_days,       \* fetch loop: the days of the loop
    k,                  \* fetch loop: index of the next day in trading_days
    successful_updates, \* fetch_ohlcv_data: counter
    calls,              \* provider calls of the current fetch, in issue order
    paced,              \* a time.sleep has followed the latest provider call
    runs,               \* number of script runs started so far
    faults,             \* number of irregular provider answers so far
    symbols,            \* calculate_indicators.main: result of get_all_symbols
    processed_count,    \* calculate_indicators.main: counter
    update_fields,      \* calculate_and_update_btd / _str: the fields to write
    exit_code,          \* exit code of the script that ended last, <<>> if none
    pending_dates,      \* ensure_22_days_data: the dates its loop has yet to fetch
    df_latest,          \* calculate_and_update_btd / _str: date of the last row of df, 0 outside
    calc_df,            \* calculate_btd_str: argument df
    calc_period,        \* calculate_btd_str: argument period
    calc_out,           \* calculate_btd_str: returned pair, <<>> before the call
    closed,             \* calendar: the days of an extraordinary closure of the exchange
    cal_n,              \* get_missing_trading_days: argument days_needed
    cal_out,            \* get_missing_trading_days: <<required_trading_days>>, <<>> before the call
    raised,             \* the symbols whose processing raised in the running script
    ms_pc,              \* main_script: "off", "loop" (in the loop of main) or "child"
    ms_i,               \* main_script: index into EXECUTION_ORDER
    success_count,      \* main_script.main: counter
    failed_scripts,     \* main_script.main: list
    ms_log,             \* main_script: the scripts started so far with their outcome
    sp_message,         \* split_long_message: argument message, a sequence of characters
    sp_max_length,      \* split_long_message: argument max_length
    sp_chunks           \* split_long_message: <<returned list>>, <<>> before the call

envv == <<today, listed, faults>>
fetchv == <<trading_days, k, successful_updates, calls>>
indv == <<symbols, processed_count, update_fields, pending_dates, df_latest>>
calcv == <<calc_df, calc_period, calc_out>>
calv == <<closed, cal_n, cal_out>>
msv == <<ms_pc, ms_i, success_count, failed_scripts, ms_log>>
splitv == <<sp_message, sp_max_length, sp_chunks>>

vars == <<today, listed, store, script, pc, i, missing_dates, trading_days, k,
          successful_updates, calls, paced, runs, faults, symbols, processed_count,
          update_fields, exit_code, pending_dates, df_latest, calc_df, calc_period, calc_out,
          closed, cal_n, cal_out, raised, ms_pc, ms_i, success_count,
          failed_scripts, ms_log, sp_message, sp_max_length, sp_chunks>>

----------------------------------------------------------------------------
(* Bounds of the model *)

Today0 == 400           \* the date of the first run
MaxAdvance == 1         \* the clock advances at most this many days
MaxRuns == 3            \* at most this many script runs, by hand or by main_script
FlakyBack == 1          \* the provider may fail only for the last FlakyBack days before Today0
MaxFaults == 1          \* at most this many irregular provider answers
MaxDate == Today0 + MaxAdvance  \* the latest date the clock reaches

----------------------------------------------------------------------------
(* Program constants *)

WATCHLIST == <<"AAPL", "PLTR">>
\* WATCHLIST of run_live.py: the symbols of update_db.py and two more
rl_WATCHLIST == <<"AAPL", "PLTR", "BRK-B">>
days_needed == 150
NewSymbolDays == 365

NULL == <<>>
Some(v) == <<v>>

----------------------------------------------------------------------------
(* NYSE calendar (pandas_market_calendars): weekdays that are neither a      *)
(* holiday nor a day of an extraordinary closure.                            *)

Holidays == {389, 250}

IsTradingDay(d) == (d % 7) \notin {5, 6} /\ d \notin Holidays /\ d \notin closed

\* a calendar that returns every date of the range
valid_days_AllDays(start_date, end_date) ==
    IF end_date < start_date THEN <<>>
    ELSE [j \in 1..(end_date - start_date + 1) |-> start_date + j - 1]

valid_days(start_date, end_date) ==
    IF end_date < start_date THEN <<>>
    ELSE SelectSeq([j \in 1..(end_date - start_date + 1) |-> start_date + j - 1],
                   IsTradingDay)

\* seq[-n:] of Python, n > 0
LastN(seq, n) ==
    IF Len(seq) <= n THEN seq ELSE SubSeq(seq, Len(seq) - n + 1, Len(seq))

Range(seq) == {seq[j] : j \in 1..Len(seq)}

\* min(seq) and max(seq) of Python, for a non-empty list
Min(seq) == CHOOSE x \in Range(seq) : \A y \in Range(seq) : x <= y
Max(seq) == CHOOSE x \in Range(seq) : \A y \in Range(seq) : x >= y

----------------------------------------------------------------------------
(* Provider (Polygon get_daily_open_close_agg) *)

\* n / d rounded to the nearest integer, ties to even, d > 0
RoundHalfEven(n, d) ==
    LET q == n \div d
        r == n % d
    IN  IF 2 * r < d THEN q
        ELSE IF 2 * r > d THEN q + 1
        ELSE IF q % 2 = 0 THEN q ELSE q + 1

\* round(x, 2) of a price given in tenths of a cent, result in cents
Round2(m) == RoundHalfEven(m, 10)

SymIdx(symbol) == CHOOSE j \in 1..Len(rl_WATCHLIST) : rl_WATCHLIST[j] = symbol

\* the bar the provider holds for (symbol, day); rev is the revision of its
\* adjusted prices
Quote(symbol, day, rev) ==
    LET c == 90000 + ((day * 37 + SymIdx(symbol) * 11) % 31) * 1000 + (day % 5) + 3000 * rev
    IN  [status |-> "OK", symbol |-> symbol, from_ |-> day, rev |-> rev,
         open |-> c - 504, high |-> c + 2006, low |-> c - 1994, close |-> c,
         volume |-> 1000 + day]

FlakyDays == (Today0 - FlakyBack)..(Today0 + MaxAdvance)

\* outcomes the provider can produce for a call: no data before the listing,
\* any outcome for a flaky day, OK otherwise
Outcomes(symbol, day) ==
    IF day < listed[symbol] THEN {"NOT_FOUND"}
    ELSE IF day \in FlakyDays /\ faults < MaxFaults THEN {"OK", "NOT_FOUND", "ERROR"}
    ELSE {"OK"}

\* the provider may revise the adjusted prices of the bar of Today0 - 1
Revisions(day) == IF day = Today0 - 1 /\ faults < MaxFaults THEN {0, 1} ELSE {0}

\* an answer that counts as irregular
Irregular(symbol, day, outcome, rev) ==
    IF (outcome # "OK" /\ day >= listed[symbol]) \/ rev # 0 THEN 1 ELSE 0

----------------------------------------------------------------------------
(* Table stock_data (data/setup_db.py) *)

KeyColumns == {"symbol", "date"}
OhlcvColumns == {"open_price", "high_price", "low_price", "close_price", "volume"}
IndicatorColumns == {"btd_22", "str_22"}
TableColumns == KeyColumns \cup OhlcvColumns \cup IndicatorColumns

SymbolRows(st, symbol) == {r \in st : r.symbol = symbol}
Dates(st, symbol) == {r.date : r \in SymbolRows(st, symbol)}

\* a test that takes a symbol with few rows for a new one
symbol_exists_Enough(st, symbol) == Cardinality(SymbolRows(st, symbol)) >= 30

\* SELECT 1 FROM stock_data WHERE symbol = ? LIMIT 1
symbol_exists(st, symbol) == SymbolRows(st, symbol) # {}

\* SELECT date ... ORDER BY date DESC LIMIT n, as a set
RecentOf(D, n) ==
    IF Cardinality(D) <= n THEN D
    ELSE {d \in D : Cardinality({e \in D : e > d}) < n}

RecentDates(st, symbol, n) ==
    CHOOSE R \in {RecentOf(D, n) : D \in {Dates(st, symbol)}} : TRUE

\* a plain INSERT that keeps the row already stored under the key
InsertOrReplace_KeepsOld(st, resp) ==
    st \cup {[symbol |-> resp.symbol, date |-> resp.from_,
              open_price |-> Round2(resp.open), high_price |-> Round2(resp.high),
              low_price |-> Round2(resp.low), close_price |-> Round2(resp.close),
              volume |-> resp.volume, btd_22 |-> NULL, str_22 |-> NULL]}

\* INSERT OR REPLACE INTO stock_data (symbol, date, open_price, high_price,
\* low_price, close_price, volume): the row with the same primary key is
\* deleted, the columns that are not named take their default NULL
InsertOrReplace(st, resp) ==
    {r \in st : ~(r.symbol = resp.symbol /\ r.date = resp.from_)}
    \cup {[symbol |-> resp.symbol, date |-> resp.from_,
           open_price |-> Round2(resp.open), high_price |-> Round2(resp.high),
           low_price |-> Round2(resp.low), close_price |-> Round2(resp.close),
           volume |-> resp.volume, btd_22 |-> NULL, str_22 |-> NULL]}

----------------------------------------------------------------------------
(* update_db.py *)

required_trading_days(now, n) ==
    LET end_date == now - 1
        calendar_days_needed == ((n * 100) \div 69) + 10
        first == valid_days(end_date - calendar_days_needed, end_date)
        all_trading_days ==
            IF Len(first) < n
            THEN valid_days(end_date - ((n * 100) \div 65), end_date)
            ELSE first
    IN  LastN(all_trading_days, n)

\* a query that returns one row less than days_needed
get_missing_trading_days_ShortLimit(st, now, symbol, n) ==
    CHOOSE missing \in
        {LET NotStored(day) == day \notin db_dates
         IN  SelectSeq(required_trading_days(now, n), NotStored) :
            db_dates \in {RecentDates(st, symbol, n - 1)}} : TRUE

get_missing_trading_days(st, now, symbol, n) ==
    CHOOSE missing \in
        {LET NotStored(day) == day \notin db_dates
         IN  SelectSeq(required_trading_days(now, n), NotStored) :
            db_dates \in {RecentDates(st, symbol, n)}} : TRUE

----------------------------------------------------------------------------
(* calculate_indicators.py *)

\* df.sort_values("date"): the dates in ascending order
sort_values(D) ==
    LET InD(d) == d \in D
    IN  SelectSeq([j \in 1..(MaxDate + 1) |-> j - 1], InD)

RowOf(st, symbol, d) == CHOOSE r \in st : r.symbol = symbol /\ r.date = d

\* SELECT date, open_price, high_price, low_price, close_price, volume
SelectOhlcv(r) ==
    [date |-> r.date, open_price |-> r.open_price, high_price |-> r.high_price,
     low_price |-> r.low_price, close_price |-> r.close_price, volume |-> r.volume]

get_stock_data(st, symbol, days) ==
    CHOOSE df \in
        {[j \in 1..Len(ds) |-> SelectOhlcv(RowOf(st, symbol, ds[j]))] :
            ds \in {sort_values(RecentDates(st, symbol, days))}} : TRUE

Inf == 10^9

\* a conversion that cuts the digits after the second decimal
PctOver_Truncated(a, b) ==
    IF b = 0 THEN (IF a < 0 THEN -Inf ELSE Inf)
    ELSE LET n == IF b > 0 THEN (a - b) * 10000 ELSE (b - a) * 10000
             d == IF b > 0 THEN b ELSE -b
         IN  IF n >= 0 THEN n \div d ELSE -((-n) \div d)

\* ((a - b) / b) * 100 rounded to two decimals, in hundredths of a percent;
\* a float division by zero gives an infinity
PctOver(a, b) ==
    IF b = 0 THEN (IF a < 0 THEN -Inf ELSE Inf)
    ELSE IF b > 0 THEN RoundHalfEven((a - b) * 10000, b)
    ELSE RoundHalfEven((b - a) * 10000, -b)

SetMin(S) == CHOOSE x \in S : \A y \in S : x <= y
SetMax(S) == CHOOSE x \in S : \A y \in S : x >= y

\* df.iloc[-period:], a window that takes in the current day
past_data_WithCurrent(df, period) == SubSeq(df, Len(df) - period + 1, Len(df))

\* df.iloc[-(period + 1) : -1]
past_data(df, period) == SubSeq(df, Len(df) - period, Len(df) - 1)

\* no check of len(df): the window is whatever part of the series there is
calculate_btd_str_NoLengthCheck(df, period) ==
    IF Len(df) < 2 THEN <<NULL, NULL>>
    ELSE LET current_day == df[Len(df)]
             first == IF Len(df) - period < 1 THEN 1 ELSE Len(df) - period
             closes == {df[j].close_price : j \in first..(Len(df) - 1)}
         IN  CHOOSE out \in
                 {<<IF lowest_close > 0
                    THEN Some(PctOver(current_day.high_price, lowest_close))
                    ELSE NULL,
                    IF highest_close > 0
                    THEN Some(PctOver(current_day.low_price, highest_close))
                    ELSE NULL>> :
                     lowest_close \in {SetMin(closes)},
                     highest_close \in {SetMax(closes)}} : TRUE

\* the guards test >= 0 instead of > 0
calculate_btd_str_GuardGE(df, period) ==
    IF Len(df) < period + 1 THEN <<NULL, NULL>>
    ELSE LET current_day == df[Len(df)]
             closes == {r.close_price : r \in Range(past_data(df, period))}
         IN  CHOOSE out \in
                 {<<IF lowest_close >= 0
                    THEN Some(PctOver(current_day.high_price, lowest_close))
                    ELSE NULL,
                    IF highest_close >= 0
                    THEN Some(PctOver(current_day.low_price, highest_close))
                    ELSE NULL>> :
                     lowest_close \in {SetMin(closes)},
                     highest_close \in {SetMax(closes)}} : TRUE

calculate_btd_str(df, period) ==
    IF Len(df) < period + 1 THEN <<NULL, NULL>>
    ELSE LET current_day == df[Len(df)]
             closes == {r.close_price : r \in Range(past_data(df, period))}
         IN  CHOOSE out \in
                 {<<IF lowest_close > 0
                    THEN Some(PctOver(current_day.high_price, lowest_close))
                    ELSE NULL,
                    IF highest_close > 0
                    THEN Some(PctOver(current_day.low_price, highest_close))
                    ELSE NULL>> :
                     lowest_close \in {SetMin(closes)},
                     highest_close \in {SetMax(closes)}} : TRUE

\* the dict update_fields of calculate_and_update_btd
btd_fields(df) ==
    LET b22 == calculate_btd_str(df, 22)[1]
        b66 == calculate_btd_str(df, 66)[1]
        b132 == calculate_btd_str(df, 132)[1]
    IN  [c \in (IF b22 # NULL THEN {"btd_22"} ELSE {})
               \cup (IF b66 # NULL THEN {"btd_66"} ELSE {})
               \cup (IF b132 # NULL THEN {"btd_132"} ELSE {}) |->
            IF c = "btd_22" THEN b22 ELSE IF c = "btd_66" THEN b66 ELSE b132]

\* the dict update_fields of calculate_and_update_str
str_fields(df) ==
    LET s22 == calculate_btd_str(df, 22)[2]
        s66 == calculate_btd_str(df, 66)[2]
        s132 == calculate_btd_str(df, 132)[2]
    IN  [c \in (IF s22 # NULL THEN {"str_22"} ELSE {})
               \cup (IF s66 # NULL THEN {"str_66"} ELSE {})
               \cup (IF s132 # NULL THEN {"str_132"} ELSE {}) |->
            IF c = "str_22" THEN s22 ELSE IF c = "str_66" THEN s66 ELSE s132]

\* SELECT MAX(date) FROM stock_data WHERE symbol = ?
max_date(st, symbol) == SetMax(Dates(st, symbol))

\* an UPDATE whose WHERE clause only names the symbol
UpdateLatest_AllRows(st, symbol, fields) ==
    {IF r.symbol = symbol
     THEN [c \in DOMAIN r |-> IF c \in DOMAIN fields THEN fields[c] ELSE r[c]]
     ELSE r : r \in st}

\* UPDATE stock_data SET {fields} WHERE symbol = ? AND date = (SELECT MAX(date) ...)
UpdateLatest(st, symbol, fields) ==
    CHOOSE new \in
        {{IF r.symbol = symbol /\ r.date = latest
          THEN [c \in DOMAIN r |-> IF c \in DOMAIN fields THEN fields[c] ELSE r[c]]
          ELSE r : r \in st} : latest \in {max_date(st, symbol)}} : TRUE

----------------------------------------------------------------------------
(* Initial state: the table as create_database leaves it, no script running *)

\* listing day of the symbols the provider has listed recently
Listings == {355}

Init ==
    /\ today = Today0
    /\ listed \in {[s \in Range(rl_WATCHLIST) |-> IF s = "PLTR" THEN d ELSE 0] :
                      d \in Listings}
    /\ store = {}
    /\ script = "none"
    /\ pc = "idle"
    /\ i = 0
    /\ missing_dates = <<>>
    /\ trading_days = <<>>
    /\ k = 0
    /\ successful_updates = 0
    /\ calls = <<>>
    /\ paced = TRUE
    /\ runs = 0
    /\ faults = 0
    /\ symbols = <<>>
    /\ processed_count = 0
    /\ update_fields = <<>>
    /\ exit_code = <<>>
    /\ pending_dates = <<>>
    /\ df_latest = 0
    /\ calc_df = <<>>
    /\ calc_period = 0
    /\ calc_out = <<>>
    /\ closed = {}
    /\ cal_n = 0
    /\ cal_out = <<>>
    /\ raised = {}
    /\ ms_pc = "off"
    /\ ms_i = 0
    /\ success_count = 0
    /\ failed_scripts = <<>>
    /\ ms_log = <<>>
    /\ sp_message = <<>>
    /\ sp_max_length = 0
    /\ sp_chunks = <<>>

\* the system clock passes midnight between two runs
AdvanceDay ==
    /\ pc = "idle"
    /\ today < Today0 + MaxAdvance
    /\ today' = today + 1
    /\ UNCHANGED <<listed, faults, store, script, pc, i, missing_dates, fetchv, paced, runs,
                   indv, exit_code, calcv, calv, splitv, msv, raised>>

----------------------------------------------------------------------------
(* main_script.py: EXECUTION_ORDER and the start of a script, by hand or by  *)
(* run_script                                                                *)

EXECUTION_ORDER ==
    <<[script |-> "update_db", timeout |-> FALSE, critical |-> TRUE],
      [script |-> "calculate_indicators", timeout |-> TRUE, critical |-> TRUE],
      [script |-> "send_telegram", timeout |-> TRUE, critical |-> FALSE]>>

\* script s can start: by hand when nothing runs, or as the script the loop of
\* main_script.main has reached
MayStart(s) ==
    /\ pc = "idle"
    /\ script = "none"
    /\ runs < MaxRuns
    /\ \/ ms_pc = "off"
       \/ /\ ms_pc = "loop"
          /\ ms_i <= Len(EXECUTION_ORDER)
          /\ EXECUTION_ORDER[ms_i].script = s

\* run_script up to subprocess.run: the child process starts
Launch(s) ==
    /\ runs' = runs + 1
    /\ ms_pc' = IF ms_pc = "off" THEN "off" ELSE "child"
    /\ ms_log' = IF ms_pc = "off" THEN ms_log
                 ELSE Append(ms_log, [script |-> s, state |-> "running", returncode |-> -1])
    /\ UNCHANGED <<ms_i, success_count, failed_scripts>>

----------------------------------------------------------------------------
(* update_db.py: main, update_ohlcv_data, fetch_ohlcv_data *)

\* main() of update_db.py up to the first symbol of update_ohlcv_data
StartUpdateDb ==
    /\ MayStart("update_db")
    /\ Launch("update_db")
    /\ script' = "update_db"
    /\ pc' = "symbol"
    /\ i' = 1
    /\ raised' = {}
    /\ UNCHANGED <<envv, store, missing_dates, fetchv, paced, indv, exit_code,
                   calcv, calv, splitv>>

\* a loop that takes the days newest first
EnterFetch_NewestFirst(start_date, end_date) ==
    /\ trading_days' = [j \in 1..Len(valid_days(start_date, end_date)) |->
                           valid_days(start_date, end_date)
                              [Len(valid_days(start_date, end_date)) + 1 - j]]
    /\ k' = 1
    /\ successful_updates' = 0
    /\ calls' = <<>>
    /\ pc' = "fetch"

\* the fetch function up to its loop
EnterFetch(start_date, end_date) ==
    /\ trading_days' = valid_days(start_date, end_date)
    /\ k' = 1
    /\ successful_updates' = 0
    /\ calls' = <<>>
    /\ pc' = "fetch"

\* update_ohlcv_data, a symbol without rows
UpdateNewSymbol ==
    /\ script = "update_db" /\ pc = "symbol" /\ i <= Len(WATCHLIST)
    /\ ~symbol_exists(store, WATCHLIST[i])
    /\ EnterFetch(today - NewSymbolDays, today - 1)
    /\ missing_dates' = <<>>
    /\ UNCHANGED <<envv, store, script, i, paced, runs, indv, exit_code,
                   calcv, calv, splitv, msv, raised>>

\* update_ohlcv_data, a symbol with rows and missing days
UpdateMissing ==
    /\ script = "update_db" /\ pc = "symbol" /\ i <= Len(WATCHLIST)
    /\ symbol_exists(store, WATCHLIST[i])
    /\ \E missing \in {get_missing_trading_days(store, today, WATCHLIST[i], days_needed)} :
           /\ missing # <<>>
           /\ missing_dates' = missing
           /\ IF Len(missing) > 1
              THEN EnterFetch(Min(missing), Max(missing))
              ELSE EnterFetch(missing[1], missing[1])
    /\ UNCHANGED <<envv, store, script, i, paced, runs, indv, exit_code,
                   calcv, calv, splitv, msv, raised>>

\* update_ohlcv_data, a symbol with rows and no missing day
UpdateUpToDate ==
    /\ script = "update_db" /\ pc = "symbol" /\ i <= Len(WATCHLIST)
    /\ symbol_exists(store, WATCHLIST[i])
    /\ get_missing_trading_days(store, today, WATCHLIST[i], days_needed) = <<>>
    /\ missing_dates' = <<>>
    /\ i' = i + 1
    /\ UNCHANGED <<envv, store, script, pc, fetchv, paced, runs, indv, exit_code,
                   calcv, calv, splitv, msv, raised>>

InFetch(s) == script = s /\ pc = "fetch" /\ k <= Len(trading_days)

\* the days of the provider calls of the current fetch that had this outcome
DaysFetched(outcome) ==
    {calls[j].day : j \in {n \in 1..Len(calls) : calls[n].outcome = outcome}}

Call(outcome, rev) == [day |-> trading_days[k], outcome |-> outcome, rev |-> rev]

\* one iteration of the loop of fetch_ohlcv_data: status OK
FetchOK ==
    /\ InFetch("update_db")
    /\ "OK" \in Outcomes(WATCHLIST[i], trading_days[k])
    /\ \E rev \in Revisions(trading_days[k]) :
          /\ store' = InsertOrReplace(store, Quote(WATCHLIST[i], trading_days[k], rev))
          /\ calls' = Append(calls, Call("OK", rev))
          /\ faults' = faults + Irregular(WATCHLIST[i], trading_days[k], "OK", rev)
    /\ successful_updates' = successful_updates + 1
    /\ paced' = TRUE
    /\ k' = k + 1
    /\ UNCHANGED <<today, listed, script, pc, i, missing_dates, trading_days, runs, indv,
                   exit_code, calcv, calv, splitv, msv, raised>>

\* a loop that counts a day without data as a success
FetchNoData_Counted ==
    /\ InFetch("update_db")
    /\ "NOT_FOUND" \in Outcomes(WATCHLIST[i], trading_days[k])
    /\ calls' = Append(calls, Call("NOT_FOUND", 0))
    /\ faults' = faults + Irregular(WATCHLIST[i], trading_days[k], "NOT_FOUND", 0)
    /\ successful_updates' = successful_updates + 1
    /\ paced' = FALSE
    /\ k' = k + 1
    /\ UNCHANGED <<today, listed, store, script, pc, i, missing_dates, trading_days,
                   runs, indv, exit_code, calcv, calv, splitv, msv, raised>>

\* one iteration of the loop of fetch_ohlcv_data: status other than OK
FetchNoData ==
    /\ InFetch("update_db")
    /\ "NOT_FOUND" \in Outcomes(WATCHLIST[i], trading_days[k])
    /\ calls' = Append(calls, Call("NOT_FOUND", 0))
    /\ faults' = faults + Irregular(WATCHLIST[i], trading_days[k], "NOT_FOUND", 0)
    /\ paced' = FALSE
    /\ k' = k + 1
    /\ UNCHANGED <<today, listed, store, script, pc, i, missing_dates, trading_days,
                   successful_updates, runs, indv, exit_code, calcv, calv, splitv, msv, raised>>

\* the exception of the provider call ends the loop
FetchError_Abort ==
    /\ InFetch("update_db")
    /\ "ERROR" \in Outcomes(WATCHLIST[i], trading_days[k])
    /\ calls' = Append(calls, Call("ERROR", 0))
    /\ faults' = faults + Irregular(WATCHLIST[i], trading_days[k], "ERROR", 0)
    /\ paced' = TRUE
    /\ k' = Len(trading_days) + 1
    /\ UNCHANGED <<today, listed, store, script, pc, i, missing_dates, trading_days,
                   successful_updates, runs, indv, exit_code, calcv, calv, splitv, msv, raised>>

\* one iteration of the loop of fetch_ohlcv_data: the provider call raises
FetchError ==
    /\ InFetch("update_db")
    /\ "ERROR" \in Outcomes(WATCHLIST[i], trading_days[k])
    /\ calls' = Append(calls, Call("ERROR", 0))
    /\ faults' = faults + Irregular(WATCHLIST[i], trading_days[k], "ERROR", 0)
    /\ paced' = TRUE
    /\ k' = k + 1
    /\ UNCHANGED <<today, listed, store, script, pc, i, missing_dates, trading_days,
                   successful_updates, runs, indv, exit_code, calcv, calv, splitv, msv, raised>>

\* the locals of a fetch are gone when it returns
LeaveFetch ==
    /\ trading_days' = <<>>
    /\ k' = 0
    /\ successful_updates' = 0
    /\ calls' = <<>>
    /\ missing_dates' = <<>>

\* fetch_ohlcv_data after the loop, back in update_ohlcv_data
FetchDone ==
    /\ script = "update_db" /\ pc = "fetch" /\ k > Len(trading_days)
    /\ LeaveFetch
    /\ pc' = "symbol"
    /\ i' = i + 1
    /\ UNCHANGED <<envv, store, script, paced, runs, indv, exit_code,
                   calcv, calv, splitv, msv, raised>>

\* sqlite3 raises inside the try of the loop after the provider has answered
\* OK (INSERT or commit fails): the except clause logs it, the loop goes on
FetchStorageError ==
    /\ InFetch("update_db")
    /\ "OK" \in Outcomes(WATCHLIST[i], trading_days[k])
    /\ trading_days[k] \in FlakyDays
    /\ faults < MaxFaults
    /\ calls' = Append(calls, Call("STORAGE_ERROR", 0))
    /\ faults' = faults + 1
    /\ paced' = TRUE
    /\ k' = k + 1
    /\ UNCHANGED <<today, listed, store, script, pc, i, missing_dates, trading_days,
                   successful_updates, runs, indv, exit_code, calcv, calv, splitv, msv, raised>>

\* a termination that undoes the bars the batch has stored
Terminate_Rollback ==
    /\ InFetch("update_db")
    /\ trading_days[k] \in FlakyDays
    /\ faults < MaxFaults
    /\ faults' = faults + 1
    /\ store' = {r \in store : ~(r.symbol = WATCHLIST[i] /\ r.date \in DaysFetched("OK"))}
    /\ LeaveFetch
    /\ exit_code' = [script |-> "update_db", success |-> FALSE, code |-> -9]
    /\ script' = "none"
    /\ pc' = "idle"
    /\ i' = 0
    /\ paced' = TRUE
    /\ UNCHANGED <<today, listed, runs, indv, calcv, calv, splitv, msv, raised>>

\* the process is terminated (signal, power loss) inside the loop of
\* fetch_ohlcv_data, before the provider call for one of the latest days:
\* every conn.commit() that has returned stays in the database file
Terminate ==
    /\ InFetch("update_db")
    /\ trading_days[k] \in FlakyDays
    /\ faults < MaxFaults
    /\ faults' = faults + 1
    /\ LeaveFetch
    /\ exit_code' = [script |-> "update_db", success |-> FALSE, code |-> -9]
    /\ script' = "none"
    /\ pc' = "idle"
    /\ i' = 0
    /\ paced' = TRUE
    /\ UNCHANGED <<today, listed, store, runs, indv, calcv, calv, splitv, msv, raised>>

\* symbol_exists, get_missing_trading_days or the part of fetch_ohlcv_data
\* before its loop raises (sqlite3.connect, execute): update_ohlcv_data has no
\* try, the exception reaches the except clause of main()
UpdateSymbolRaise ==
    /\ script = "update_db" /\ pc = "symbol" /\ i <= Len(WATCHLIST)
    /\ faults < MaxFaults
    /\ faults' = faults + 1
    /\ raised' = raised \cup {WATCHLIST[i]}
    /\ pc' = "except"
    /\ UNCHANGED <<today, listed, store, script, i, missing_dates, fetchv, paced, runs,
                   indv, exit_code, calcv, calv, splitv, msv>>

\* the except clause of main(): sys.exit(1)
UpdateDbFail ==
    /\ script = "update_db" /\ pc = "except"
    /\ exit_code' = [script |-> "update_db", success |-> FALSE, code |-> 1]
    /\ script' = "none"
    /\ pc' = "idle"
    /\ i' = 0
    /\ UNCHANGED <<envv, store, missing_dates, fetchv, paced, runs, indv,
                   calcv, calv, splitv, msv, raised>>

\* update_ohlcv_data has processed the watchlist, main() returns
UpdateDbExit ==
    /\ script = "update_db" /\ pc = "symbol" /\ i > Len(WATCHLIST)
    /\ script' = "none"
    /\ pc' = "idle"
    /\ i' = 0
    /\ exit_code' = [script |-> "update_db", success |-> TRUE, code |-> 0]
    /\ paced' = TRUE
    /\ UNCHANGED <<envv, store, missing_dates, fetchv, runs, indv,
                   calcv, calv, splitv, msv, raised>>

----------------------------------------------------------------------------
(* calculate_indicators.py: main, update_custom_indicators_for_symbol *)

\* SELECT DISTINCT symbol FROM stock_data
DistinctSymbols(st) == {r.symbol : r \in st}

\* the orders in which a query without ORDER BY can return a set
Orders(S) == {seq \in [1..Cardinality(S) -> S] : Range(seq) = S}

\* main(): no symbol in the table
IndicatorsNoSymbols ==
    /\ MayStart("calculate_indicators")
    /\ Launch("calculate_indicators")
    /\ DistinctSymbols(store) = {}
    /\ exit_code' = [script |-> "calculate_indicators", success |-> FALSE, code |-> 0]
    /\ raised' = {}
    /\ UNCHANGED <<envv, store, script, pc, i, missing_dates, fetchv, paced, indv,
                   calcv, calv, splitv>>

\* main() up to the first symbol
StartIndicators ==
    /\ MayStart("calculate_indicators")
    /\ Launch("calculate_indicators")
    /\ DistinctSymbols(store) # {}
    /\ symbols' \in Orders(DistinctSymbols(store))
    /\ processed_count' = 0
    /\ script' = "calculate_indicators"
    /\ pc' = "btd"
    /\ i' = 1
    /\ raised' = {}
    /\ UNCHANGED <<envv, store, missing_dates, fetchv, paced, update_fields,
                   pending_dates, df_latest, exit_code, calcv, calv, splitv>>

AtSymbol(p) == script = "calculate_indicators" /\ pc = p /\ i <= Len(symbols)

\* calculate_and_update_btd up to the UPDATE
BtdCompute ==
    /\ AtSymbol("btd")
    /\ \E df \in {get_stock_data(store, symbols[i], 140)} :
          IF Len(df) < 23
          THEN /\ update_fields' = <<>>
               /\ df_latest' = 0
               /\ pc' = "str"
          ELSE \E fields \in {btd_fields(df)} :
                  /\ update_fields' = fields
                  /\ df_latest' = IF DOMAIN fields # {} THEN df[Len(df)].date ELSE 0
                  /\ pc' = IF DOMAIN fields # {} THEN "btd_update" ELSE "str"
    /\ UNCHANGED <<envv, store, script, i, missing_dates, fetchv, paced, runs,
                   symbols, processed_count, pending_dates, exit_code,
                   calcv, calv, splitv, msv, raised>>

\* calculate_and_update_btd: the UPDATE and commit
BtdUpdate ==
    /\ AtSymbol("btd_update")
    /\ DOMAIN update_fields \subseteq TableColumns
    /\ store' = UpdateLatest(store, symbols[i], update_fields)
    /\ update_fields' = <<>>
    /\ df_latest' = 0
    /\ pc' = "str"
    /\ UNCHANGED <<envv, script, i, missing_dates, fetchv, paced, runs, symbols,
                   processed_count, pending_dates, exit_code, calcv, calv, splitv, msv, raised>>

\* the UPDATE names a column the table does not have: sqlite3.OperationalError,
\* caught by the loop of main()
BtdUpdateRaise ==
    /\ AtSymbol("btd_update")
    /\ ~(DOMAIN update_fields \subseteq TableColumns)
    /\ raised' = raised \cup {symbols[i]}
    /\ update_fields' = <<>>
    /\ df_latest' = 0
    /\ pc' = "btd"
    /\ i' = i + 1
    /\ UNCHANGED <<envv, store, script, missing_dates, fetchv, paced, runs, symbols,
                   processed_count, pending_dates, exit_code, calcv, calv, splitv, msv>>

\* calculate_and_update_str up to the UPDATE
StrCompute ==
    /\ AtSymbol("str")
    /\ \E df \in {get_stock_data(store, symbols[i], 140)} :
          IF Len(df) < 23
          THEN /\ update_fields' = <<>>
               /\ df_latest' = 0
               /\ pc' = "btd"
               /\ i' = i + 1
               /\ processed_count' = processed_count + 1
          ELSE \E fields \in {str_fields(df)} :
                  /\ update_fields' = fields
                  /\ df_latest' = IF DOMAIN fields # {} THEN df[Len(df)].date ELSE 0
                  /\ IF DOMAIN fields # {}
                     THEN /\ pc' = "str_update"
                          /\ UNCHANGED <<i, processed_count>>
                     ELSE /\ pc' = "btd"
                          /\ i' = i + 1
                          /\ processed_count' = processed_count + 1
    /\ UNCHANGED <<envv, store, script, missing_dates, fetchv, paced, runs,
                   symbols, pending_dates, exit_code, calcv, calv, splitv, msv, raised>>

\* calculate_and_update_str: the UPDATE and commit, then back in main(); an
\* UPDATE that names a column the table does not have raises
StrUpdate ==
    /\ AtSymbol("str_update")
    /\ IF DOMAIN update_fields \subseteq TableColumns
       THEN /\ store' = UpdateLatest(store, symbols[i], update_fields)
            /\ processed_count' = processed_count + 1
            /\ UNCHANGED raised
       ELSE /\ raised' = raised \cup {symbols[i]}
            /\ UNCHANGED <<store, processed_count>>
    /\ update_fields' = <<>>
    /\ df_latest' = 0
    /\ pc' = "btd"
    /\ i' = i + 1
    /\ UNCHANGED <<envv, script, missing_dates, fetchv, paced, runs, symbols,
                   pending_dates, exit_code, calcv, calv, splitv, msv>>

\* a fetch process (run_live.py or update_db.py, started by cron or by hand
\* while the engine runs) upserts the bar of a missing day that is newer than
\* the latest bar of the symbol the engine is at
ConcurrentUpsert ==
    /\ script = "calculate_indicators"
    /\ pc \in {"btd_update", "str", "str_update"}
    /\ i <= Len(symbols)
    /\ faults < MaxFaults
    /\ \E latest \in {max_date(store, symbols[i])} :
          /\ latest < today - 1
          /\ \E d \in {SetMin({x \in (latest + 1)..(today - 1) : IsTradingDay(x)})} :
                store' = InsertOrReplace(store, Quote(symbols[i], d, 0))
    /\ faults' = faults + 1
    /\ UNCHANGED <<today, listed, script, pc, i, missing_dates, fetchv, paced, runs, indv,
                   exit_code, calcv, calv, splitv, msv, raised>>

\* a main() for which one failing symbol makes the run fail
IndicatorsExit_AllOrNothing ==
    /\ script = "calculate_indicators" /\ pc = "btd" /\ i > Len(symbols)
    /\ exit_code' = [script |-> "calculate_indicators",
                     success |-> processed_count = Len(symbols),
                     code |-> IF processed_count = Len(symbols) THEN 0 ELSE 1]
    /\ script' = "none"
    /\ pc' = "idle"
    /\ i' = 0
    /\ UNCHANGED <<envv, store, missing_dates, fetchv, paced, runs, indv,
                   calcv, calv, splitv, msv, raised>>

\* main() after the loop
IndicatorsExit ==
    /\ script = "calculate_indicators" /\ pc = "btd" /\ i > Len(symbols)
    /\ exit_code' = [script |-> "calculate_indicators",
                     success |-> processed_count > 0,
                     code |-> IF processed_count > 0 THEN 0 ELSE 1]
    /\ script' = "none"
    /\ pc' = "idle"
    /\ i' = 0
    /\ UNCHANGED <<envv, store, missing_dates, fetchv, paced, runs, indv,
                   calcv, calv, splitv, msv, raised>>

----------------------------------------------------------------------------
(* run_live.py: main, fetch_data_from_polygon, ensure_22_days_data,          *)
(* calculate_btd_str, generate_watchlist                                     *)

Reverse(seq) == [j \in 1..Len(seq) |-> seq[Len(seq) + 1 - j]]

\* the list missing_dates of ensure_22_days_data
rl_missing_dates(st, now, symbol) ==
    CHOOSE missing \in
        {LET NotStored(day) == day \notin db_dates
         IN  SelectSeq(LastN(valid_days((now - 1) - 60, now - 1), 22), NotStored) :
            db_dates \in {RecentDates(st, symbol, 22)}} : TRUE

\* calculate_btd_str(symbol) of run_live.py up to its UPDATE: results are the
\* 23 latest rows, newest first
rl_calculate_btd_str(st, symbol) ==
    CHOOSE out \in
        {IF Len(results) # 23 THEN [raised |-> FALSE, btd_22 |-> NULL, str_22 |-> NULL]
         ELSE LET closes == {results[j].close_price : j \in 2..23}
              IN  IF SetMin(closes) = 0 \/ SetMax(closes) = 0
                  THEN [raised |-> TRUE, btd_22 |-> NULL, str_22 |-> NULL]
                  ELSE [raised |-> FALSE,
                        btd_22 |-> Some(PctOver(results[1].high_price, SetMin(closes))),
                        str_22 |-> Some(PctOver(results[1].low_price, SetMax(closes)))] :
            results \in {Reverse(get_stock_data(st, symbol, 23))}} : TRUE

\* main() of run_live.py up to the first symbol
StartRunLive ==
    /\ pc = "idle"
    /\ script = "none"
    /\ ms_pc = "off"
    /\ runs < MaxRuns
    /\ runs' = runs + 1
    /\ script' = "run_live"
    /\ pc' = "rl_symbol"
    /\ i' = 1
    /\ UNCHANGED <<envv, store, missing_dates, fetchv, paced, indv, exit_code,
                   calcv, calv, splitv, msv, raised>>

\* main(): a symbol without rows is fetched for the last 30 days and today
RlNewSymbol ==
    /\ script = "run_live" /\ pc = "rl_symbol" /\ i <= Len(rl_WATCHLIST)
    /\ ~symbol_exists(store, rl_WATCHLIST[i])
    /\ EnterFetch(today - 30, today)
    /\ UNCHANGED <<envv, store, script, i, missing_dates, paced, runs, indv,
                   exit_code, calcv, calv, splitv, msv, raised>>

\* one iteration of the loop of fetch_data_from_polygon: status OK
RlFetchOK ==
    /\ InFetch("run_live")
    /\ "OK" \in Outcomes(rl_WATCHLIST[i], trading_days[k])
    /\ \E rev \in Revisions(trading_days[k]) :
          /\ store' = InsertOrReplace(store, Quote(rl_WATCHLIST[i], trading_days[k], rev))
          /\ calls' = Append(calls, Call("OK", rev))
          /\ faults' = faults + Irregular(rl_WATCHLIST[i], trading_days[k], "OK", rev)
    /\ paced' = TRUE
    /\ k' = k + 1
    /\ UNCHANGED <<today, listed, script, pc, i, missing_dates, trading_days,
                   successful_updates, runs, indv, exit_code, calcv, calv, splitv, msv, raised>>

\* one iteration of the loop of fetch_data_from_polygon: status other than OK
RlFetchNoData ==
    /\ InFetch("run_live")
    /\ "NOT_FOUND" \in Outcomes(rl_WATCHLIST[i], trading_days[k])
    /\ calls' = Append(calls, Call("NOT_FOUND", 0))
    /\ faults' = faults + Irregular(rl_WATCHLIST[i], trading_days[k], "NOT_FOUND", 0)
    /\ paced' = FALSE
    /\ k' = k + 1
    /\ UNCHANGED <<today, listed, store, script, pc, i, missing_dates, trading_days,
                   successful_updates, runs, indv, exit_code, calcv, calv, splitv, msv, raised>>

\* one iteration of the loop of fetch_data_from_polygon: the call raises
RlFetchError ==
    /\ InFetch("run_live")
    /\ "ERROR" \in Outcomes(rl_WATCHLIST[i], trading_days[k])
    /\ calls' = Append(calls, Call("ERROR", 0))
    /\ faults' = faults + Irregular(rl_WATCHLIST[i], trading_days[k], "ERROR", 0)
    /\ paced' = TRUE
    /\ k' = k + 1
    /\ UNCHANGED <<today, listed, store, script, pc, i, missing_dates, trading_days,
                   successful_updates, runs, indv, exit_code, calcv, calv, splitv, msv, raised>>

\* fetch_data_from_polygon returns, to main() or to the loop of ensure_22_days_data
RlFetchDone ==
    /\ script = "run_live" /\ pc = "fetch" /\ k > Len(trading_days)
    /\ trading_days' = <<>>
    /\ k' = 0
    /\ calls' = <<>>
    /\ IF pending_dates = <<>>
       THEN /\ pc' = "rl_ensure"
            /\ UNCHANGED pending_dates
       ELSE /\ pc' = "rl_ensure_loop"
            /\ pending_dates' = Tail(pending_dates)
    /\ UNCHANGED <<envv, store, script, i, missing_dates, successful_updates, paced,
                   runs, symbols, processed_count, update_fields, df_latest, exit_code,
                   calcv, calv, splitv, msv, raised>>

\* ensure_22_days_data up to its loop
RlEnsure ==
    /\ script = "run_live"
    /\ \/ pc = "rl_ensure"
       \/ pc = "rl_symbol" /\ i <= Len(rl_WATCHLIST) /\ symbol_exists(store, rl_WATCHLIST[i])
    /\ \E missing \in {rl_missing_dates(store, today, rl_WATCHLIST[i])} :
          /\ missing_dates' = missing
          /\ pending_dates' = Reverse(missing)
    /\ pc' = "rl_ensure_loop"
    /\ UNCHANGED <<envv, store, script, i, fetchv, paced, runs, symbols,
                   processed_count, update_fields, df_latest, exit_code, calcv, calv,
                   splitv, msv, raised>>

\* the loop of ensure_22_days_data: fetch one missing date
RlEnsureNext ==
    /\ script = "run_live" /\ pc = "rl_ensure_loop"
    /\ pending_dates # <<>>
    /\ EnterFetch(pending_dates[1], pending_dates[1])
    /\ UNCHANGED <<envv, store, script, i, missing_dates, paced, runs, indv,
                   exit_code, calcv, calv, splitv, msv, raised>>

\* ensure_22_days_data returns, main() goes to the next symbol
RlEnsureDone ==
    /\ script = "run_live" /\ pc = "rl_ensure_loop"
    /\ pending_dates = <<>>
    /\ df_latest = 0
    /\ missing_dates' = <<>>
    /\ IF i < Len(rl_WATCHLIST)
       THEN /\ pc' = "rl_symbol"
            /\ i' = i + 1
       ELSE /\ pc' = "rl_watch"
            /\ i' = 1
    /\ UNCHANGED <<envv, store, script, fetchv, paced, runs, indv, exit_code,
                   calcv, calv, splitv, msv, raised>>

\* generate_watchlist is called for btd_22 and then for str_22; each call runs
\* calculate_btd_str for every symbol
WatchSymbol == rl_WATCHLIST[((i - 1) % Len(rl_WATCHLIST)) + 1]

\* calculate_btd_str(symbol) of run_live.py
RlCalculate ==
    /\ script = "run_live" /\ pc = "rl_watch" /\ i <= 2 * Len(rl_WATCHLIST)
    /\ \E out \in {rl_calculate_btd_str(store, WatchSymbol)} :
          IF out.raised
          THEN /\ exit_code' = [script |-> "run_live", code |-> 1]
               /\ script' = "none"
               /\ pc' = "idle"
               /\ i' = 0
               /\ paced' = TRUE
               /\ UNCHANGED store
          ELSE /\ store' = IF out.btd_22 = NULL THEN store
                           ELSE UpdateLatest(store, WatchSymbol,
                                    [c \in {"btd_22", "str_22"} |-> out[c]])
               /\ i' = i + 1
               /\ UNCHANGED <<script, pc, exit_code, paced>>
    /\ UNCHANGED <<envv, missing_dates, fetchv, runs, indv, calcv, calv, splitv, msv, raised>>

\* send_watchlist has sent both messages, main() returns
RlExit ==
    /\ script = "run_live" /\ pc = "rl_watch" /\ i > 2 * Len(rl_WATCHLIST)
    /\ exit_code' = [script |-> "run_live", code |-> 0]
    /\ script' = "none"
    /\ pc' = "idle"
    /\ i' = 0
    /\ paced' = TRUE
    /\ UNCHANGED <<envv, store, missing_dates, fetchv, runs, indv,
                   calcv, calv, splitv, msv, raised>>

----------------------------------------------------------------------------
(* send_telegram.py: main *)

\* the columns named by the queries of get_btd_data and get_str_data
WatchlistQueryColumns ==
    {"symbol", "close_price", "btd_22", "btd_66", "btd_132", "str_22", "str_66", "str_132"}

\* main(): both watchlists are read and sent; a query that names a column the
\* table does not have raises, the except clause ends with sys.exit(1); a
\* failure to reach Telegram is logged by send_telegram_message, not raised
SendTelegram ==
    /\ MayStart("send_telegram")
    /\ Launch("send_telegram")
    /\ exit_code' = IF WatchlistQueryColumns \subseteq TableColumns
                    THEN [script |-> "send_telegram", success |-> TRUE, code |-> 0]
                    ELSE [script |-> "send_telegram", success |-> FALSE, code |-> 1]
    /\ UNCHANGED <<envv, store, script, pc, i, missing_dates, fetchv, paced, indv,
                   calcv, calv, splitv, raised>>

----------------------------------------------------------------------------
(* main_script.py: main, run_script *)

\* main() up to its loop
MsStart ==
    /\ pc = "idle"
    /\ script = "none"
    /\ ms_pc = "off"
    /\ runs < MaxRuns
    /\ ms_pc' = "loop"
    /\ ms_i' = 1
    /\ success_count' = 0
    /\ failed_scripts' = <<>>
    /\ ms_log' = <<>>
    /\ UNCHANGED <<envv, store, script, pc, i, missing_dates, fetchv, paced, runs, indv,
                   exit_code, calcv, calv, splitv, raised>>

\* ms_log with the outcome of the script started last
Logged(state, returncode) ==
    [ms_log EXCEPT ![Len(ms_log)] =
        [script |-> ms_log[Len(ms_log)].script, state |-> state, returncode |-> returncode]]

\* a loop that goes on after the failure of a critical script
Account_NoBreak(ok) ==
    /\ success_count' = IF ok THEN success_count + 1 ELSE success_count
    /\ failed_scripts' = IF ok THEN failed_scripts
                         ELSE Append(failed_scripts, EXECUTION_ORDER[ms_i].script)
    /\ ms_pc' = "loop"
    /\ ms_i' = ms_i + 1

\* the loop of main() after run_script has returned ok: the counters, and the
\* break after the failure of a critical script
Account(ok) ==
    /\ success_count' = IF ok THEN success_count + 1 ELSE success_count
    /\ failed_scripts' = IF ok THEN failed_scripts
                         ELSE Append(failed_scripts, EXECUTION_ORDER[ms_i].script)
    /\ IF ~ok /\ EXECUTION_ORDER[ms_i].critical
       THEN /\ ms_pc' = "done"
            /\ UNCHANGED ms_i
       ELSE /\ ms_pc' = "loop"
            /\ ms_i' = ms_i + 1

\* run_script: subprocess.run returns the return code of the child
MsChildExit ==
    /\ ms_pc = "child"
    /\ script = "none"
    /\ ms_log' = Logged("exited", exit_code.code)
    /\ Account(exit_code.code = 0 \/ ~EXECUTION_ORDER[ms_i].critical)
    /\ UNCHANGED <<envv, store, script, pc, i, missing_dates, fetchv, paced, runs, indv,
                   exit_code, calcv, calv, splitv, raised>>

\* run_script: the script file is not there, or subprocess.run raises
MsNotRun ==
    /\ ms_pc = "loop"
    /\ pc = "idle"
    /\ ms_i <= Len(EXECUTION_ORDER)
    /\ faults < MaxFaults
    /\ faults' = faults + 1
    /\ \E state \in {"missing", "exception"} :
          ms_log' = Append(ms_log, [script |-> EXECUTION_ORDER[ms_i].script,
                                    state |-> state, returncode |-> -1])
    /\ Account(~EXECUTION_ORDER[ms_i].critical)
    /\ UNCHANGED <<today, listed, store, script, pc, i, missing_dates, fetchv, paced, runs,
                   indv, exit_code, calcv, calv, splitv, raised>>

\* run_script: subprocess.TimeoutExpired, the child has been killed
MsTimeout ==
    /\ ms_pc = "child"
    /\ script # "none"
    /\ EXECUTION_ORDER[ms_i].timeout
    /\ faults < MaxFaults
    /\ faults' = faults + 1
    /\ script' = "none"
    /\ pc' = "idle"
    /\ i' = 0
    /\ symbols' = <<>>
    /\ processed_count' = 0
    /\ update_fields' = <<>>
    /\ df_latest' = 0
    /\ raised' = {}
    /\ ms_log' = Logged("timeout", -1)
    /\ Account(~EXECUTION_ORDER[ms_i].critical)
    /\ UNCHANGED <<today, listed, store, missing_dates, fetchv, paced, runs,
                   pending_dates, exit_code, calcv, calv, splitv>>

\* main() after its loop: the exit code
MsExit ==
    /\ \/ ms_pc = "done"
       \/ ms_pc = "loop" /\ ms_i > Len(EXECUTION_ORDER)
    /\ pc = "idle"
    /\ exit_code' = [script |-> "main_script",
                     success |-> success_count = Len(EXECUTION_ORDER),
                     code |-> IF success_count = Len(EXECUTION_ORDER) THEN 0
                              ELSE IF success_count > 0 THEN 1 ELSE 2]
    /\ ms_pc' = "off"
    /\ ms_i' = 0
    /\ success_count' = 0
    /\ failed_scripts' = <<>>
    /\ ms_log' = <<>>
    /\ UNCHANGED <<envv, store, script, pc, i, missing_dates, fetchv, paced, runs, indv,
                   calcv, calv, splitv, raised>>

----------------------------------------------------------------------------

Next ==
    \/ AdvanceDay
    \/ StartUpdateDb
    \/ UpdateNewSymbol
    \/ UpdateMissing
    \/ UpdateUpToDate
    \/ FetchOK
    \/ FetchNoData
    \/ FetchError
    \/ FetchStorageError
    \/ FetchDone
    \/ Terminate
    \/ UpdateSymbolRaise
    \/ UpdateDbFail
    \/ UpdateDbExit
    \/ IndicatorsNoSymbols
    \/ StartIndicators
    \/ BtdCompute
    \/ BtdUpdate
    \/ BtdUpdateRaise
    \/ StrCompute
    \/ StrUpdate
    \/ ConcurrentUpsert
    \/ IndicatorsExit
    \/ StartRunLive
    \/ RlNewSymbol
    \/ RlFetchOK
    \/ RlFetchNoData
    \/ RlFetchError
    \/ RlFetchDone
    \/ RlEnsure
    \/ RlEnsureNext
    \/ RlEnsureDone
    \/ RlCalculate
    \/ RlExit
    \/ SendTelegram
    \/ MsStart
    \/ MsChildExit
    \/ MsNotRun
    \/ MsTimeout
    \/ MsExit

Spec == Init /\ [][Next]_vars

----------------------------------------------------------------------------
(* calculate_btd_str of calculate_indicators.py applied to bounded series *)

CalcPeriods == {22, 66, 132}
CalcLengths == {1, 22, 23, 25, 67, 69, 133, 135}
CalcBase == {-100, 0, 12000, 30000}
CalcSpike == {-300, 0, 9000, 15000}
CalcCurrent == {[high_price |-> 9500, low_price |-> 11000, close_price |-> 5000],
                [high_price |-> 12500, low_price |-> 8500, close_price |-> 20000],
                [high_price |-> 29999, low_price |-> 29990, close_price |-> 29995],
                [high_price |-> 29998, low_price |-> 29990, close_price |-> 29995],
                [high_price |-> 30010, low_price |-> 30001, close_price |-> 30005],
                [high_price |-> 30010, low_price |-> 30002, close_price |-> 30005]}

\* n bars, oldest first: every close is base, but bar a closes at spike and
\* the latest bar is cur
MakeDf(n, base, a, spike, cur) ==
    [j \in 1..n |->
        IF j = n
        THEN [date |-> j, open_price |-> cur.close_price, high_price |-> cur.high_price,
              low_price |-> cur.low_price, close_price |-> cur.close_price, volume |-> 1]
        ELSE LET c == IF j = a THEN spike ELSE base
             IN  [date |-> j, open_price |-> c, high_price |-> c + 100,
                  low_price |-> c - 100, close_price |-> c, volume |-> 1]]

InitCalc ==
    /\ today = Today0
    /\ listed = [s \in Range(rl_WATCHLIST) |-> 0]
    /\ store = {}
    /\ script = "none"
    /\ pc = "calc"
    /\ i = 0
    /\ missing_dates = <<>>
    /\ trading_days = <<>>
    /\ k = 0
    /\ successful_updates = 0
    /\ calls = <<>>
    /\ paced = TRUE
    /\ runs = 0
    /\ faults = 0
    /\ symbols = <<>>
    /\ processed_count = 0
    /\ update_fields = <<>>
    /\ exit_code = <<>>
    /\ pending_dates = <<>>
    /\ df_latest = 0
    /\ calc_period \in CalcPeriods
    /\ \E n \in CalcLengths, base \in CalcBase, spike \in CalcSpike, cur \in CalcCurrent :
          \E a \in {n - calc_period - 1, n - calc_period, n - 1} :
             calc_df = MakeDf(n, base, a, spike, cur)
    /\ calc_out = <<>>
    /\ closed = {}
    /\ cal_n = 0
    /\ cal_out = <<>>
    /\ raised = {}
    /\ ms_pc = "off"
    /\ ms_i = 0
    /\ success_count = 0
    /\ failed_scripts = <<>>
    /\ ms_log = <<>>
    /\ sp_message = <<>>
    /\ sp_max_length = 0
    /\ sp_chunks = <<>>

\* the call calculate_btd_str(df, period)
CalcCall ==
    /\ pc = "calc"
    /\ calc_out = <<>>
    /\ calc_out' = calculate_btd_str(calc_df, calc_period)
    /\ UNCHANGED <<envv, store, script, pc, i, missing_dates, fetchv, paced, runs,
                   indv, exit_code, calc_df, calc_period, calv, splitv, msv, raised>>

NextCalc == CalcCall

SpecCalc == InitCalc /\ [][NextCalc]_vars

----------------------------------------------------------------------------
(* The calendar part of get_missing_trading_days of update_db.py applied to  *)
(* bounded calendars and as-of dates                                         *)

CalDates == (Today0 - 20)..(Today0 + 60)

\* the extraordinary closures of the exchange: none, four sessions, two weeks,
\* three weeks
CalClosures == {{}, 365..370, 330..343, 330..350}

InitCal ==
    /\ today \in CalDates
    /\ listed = [s \in Range(rl_WATCHLIST) |-> 0]
    /\ store = {}
    /\ script = "none"
    /\ pc = "cal"
    /\ i = 0
    /\ missing_dates = <<>>
    /\ trading_days = <<>>
    /\ k = 0
    /\ successful_updates = 0
    /\ calls = <<>>
    /\ paced = TRUE
    /\ runs = 0
    /\ faults = 0
    /\ symbols = <<>>
    /\ processed_count = 0
    /\ update_fields = <<>>
    /\ exit_code = <<>>
    /\ pending_dates = <<>>
    /\ df_latest = 0
    /\ calc_df = <<>>
    /\ calc_period = 0
    /\ calc_out = <<>>
    /\ closed \in CalClosures
    /\ cal_n = days_needed
    /\ cal_out = <<>>
    /\ raised = {}
    /\ ms_pc = "off"
    /\ ms_i = 0
    /\ success_count = 0
    /\ failed_scripts = <<>>
    /\ ms_log = <<>>
    /\ sp_message = <<>>
    /\ sp_max_length = 0
    /\ sp_chunks = <<>>

\* get_missing_trading_days up to required_trading_days
CalCall ==
    /\ pc = "cal"
    /\ cal_out = <<>>
    /\ cal_out' = <<required_trading_days(today, cal_n)>>
    /\ UNCHANGED <<envv, store, script, pc, i, missing_dates, fetchv, paced, runs,
                   indv, exit_code, calcv, closed, cal_n, splitv, msv, raised>>

NextCal == CalCall

SpecCal == InitCal /\ [][NextCal]_vars

----------------------------------------------------------------------------
(* split_long_message of send_telegram.py applied to bounded messages; a     *)
(* string is a sequence of characters                                        *)

MaxMessageLen == 6
Chars == {"x", " ", "\n"}
Messages == UNION {[1..n -> Chars] : n \in 0..MaxMessageLen}
MaxLengths == 1..4

Whitespace == {" ", "\n"}

\* str.strip()
RECURSIVE strip(_)
strip(str) ==
    IF str = <<>> THEN str
    ELSE IF Head(str) \in Whitespace THEN strip(Tail(str))
    ELSE IF str[Len(str)] \in Whitespace THEN strip(SubSeq(str, 1, Len(str) - 1))
    ELSE str

\* str.split("\n")
RECURSIVE split(_)
split(str) ==
    IF \A j \in 1..Len(str) : str[j] # "\n" THEN <<str>>
    ELSE LET p == CHOOSE j \in 1..Len(str) :
                     str[j] = "\n" /\ \A n \in 1..(j - 1) : str[n] # "\n"
         IN  <<SubSeq(str, 1, p - 1)>> \o split(SubSeq(str, p + 1, Len(str)))

\* the loop of split_long_message over lines, and the statements after it
RECURSIVE split_loop(_, _, _, _)
split_loop(lines, max_length, current_chunk, chunks) ==
    IF lines = <<>>
    THEN IF current_chunk # <<>> THEN Append(chunks, strip(current_chunk)) ELSE chunks
    ELSE LET line == Head(lines)
         IN  IF Len(current_chunk) + Len(line) + 1 <= max_length
             THEN split_loop(Tail(lines), max_length,
                             current_chunk \o line \o <<"\n">>, chunks)
             ELSE split_loop(Tail(lines), max_length, line \o <<"\n">>,
                             IF current_chunk # <<>>
                             THEN Append(chunks, strip(current_chunk))
                             ELSE chunks)

split_long_message(message, max_length) ==
    IF Len(message) <= max_length THEN <<message>>
    ELSE split_loop(split(message), max_length, <<>>, <<>>)

InitSplit ==
    /\ today = Today0
    /\ listed = [s \in Range(rl_WATCHLIST) |-> 0]
    /\ store = {}
    /\ script = "none"
    /\ pc = "split"
    /\ i = 0
    /\ missing_dates = <<>>
    /\ trading_days = <<>>
    /\ k = 0
    /\ successful_updates = 0
    /\ calls = <<>>
    /\ paced = TRUE
    /\ runs = 0
    /\ faults = 0
    /\ symbols = <<>>
    /\ processed_count = 0
    /\ update_fields = <<>>
    /\ exit_code = <<>>
    /\ pending_dates = <<>>
    /\ df_latest = 0
    /\ calc_df = <<>>
    /\ calc_period = 0
    /\ calc_out = <<>>
    /\ closed = {}
    /\ cal_n = 0
    /\ cal_out = <<>>
    /\ raised = {}
    /\ ms_pc = "off"
    /\ ms_i = 0
    /\ success_count = 0
    /\ failed_scripts = <<>>
    /\ ms_log = <<>>
    /\ sp_message \in Messages
    /\ sp_max_length \in MaxLengths
    /\ sp_chunks = <<>>

\* the call split_long_message(message, max_length)
SplitCall ==
    /\ pc = "split"
    /\ sp_chunks = <<>>
    /\ sp_chunks' = <<split_long_message(sp_message, sp_max_length)>>
    /\ UNCHANGED <<envv, store, script, pc, i, missing_dates, fetchv, paced, runs,
                   indv, exit_code, calcv, calv, msv, raised, sp_message, sp_max_length>>

NextSplit == SplitCall

SpecSplit == InitSplit /\ [][NextSplit]_vars

----------------------------------------------------------------------------
(* Properties *)

Last(seq) == seq[Len(seq)]

\* the symbol fetch_ohlcv_data is fetching, at the end of its loop
FetchEnded == script = "update_db" /\ pc = "fetch" /\ k > Len(trading_days)

\* the days the batch was started for: the days gap detection reported, or,
\* for a new symbol, the whole required window
BatchMissing ==
    IF missing_dates = <<>> THEN Range(required_trading_days(today, days_needed))
    ELSE Range(missing_dates)

DaysWith(outcome) == {calls[j].day : j \in {n \in 1..Len(calls) : calls[n].outcome = outcome}}

\* C1: in fetch_ohlcv_data a pacing delay follows every provider call, whatever
\* its outcome, so no two provider calls are issued without a delay between them
C1_PacingAfterEveryCall == script = "update_db" => paced

\* R - S in ascending order, S all the dates stored for the symbol
RequiredMinusStored(symbol) ==
    CHOOSE missing \in
        {LET NotIn(day) == day \notin S
         IN  SelectSeq(required_trading_days(today, days_needed), NotIn) :
            S \in {Dates(store, symbol)}} : TRUE

\* C2: get_missing_trading_days(symbol, N) returns exactly R - S in ascending
\* order, R the last N trading days before the as-of date, S all dates stored
\* for the symbol
C2_GapIsRequiredMinusStored ==
    /\ (script = "update_db" /\ pc = "symbol" /\ i <= Len(WATCHLIST))
          => get_missing_trading_days(store, today, WATCHLIST[i], days_needed)
                = RequiredMinusStored(WATCHLIST[i])
    /\ pc = "idle"
          => \A s \in Range(WATCHLIST) :
                get_missing_trading_days(store, today, s, days_needed)
                   = RequiredMinusStored(s)

\* C3: after a backfill in which the provider returned OK for every missing
\* day, gap detection for that symbol (same as-of date, same window) returns
\* the empty list
C3_BackfillThenNoGaps ==
    (FetchEnded /\ BatchMissing \subseteq DaysWith("OK"))
       => get_missing_trading_days(store, today, WATCHLIST[i], days_needed) = <<>>

\* C4: if the provider raises for the days F of a symbol's missing days and
\* returns OK for the others, every missing day not in F is stored, the loop
\* has attempted every day of the batch, and the next gap detection returns
\* exactly F
C4_PartialFailure ==
    (script = "update_db" /\ pc = "fetch") =>
       /\ Len(calls) = k - 1
       /\ \A j \in 1..Len(calls) : calls[j].day = trading_days[j]
       /\ FetchEnded =>
             \A M \in {BatchMissing} : \A F \in {M \cap DaysWith("ERROR")} :
                (F # {} /\ (M \ F) \subseteq DaysWith("OK")) =>
                   /\ (M \ F) \subseteq Dates(store, WATCHLIST[i])
                   /\ get_missing_trading_days(store, today, WATCHLIST[i], days_needed)
                         = sort_values(F)

C4_Witness ==
    /\ FetchEnded
    /\ successful_updates > 0
    /\ BatchMissing \cap DaysWith("ERROR") # {}
    /\ (BatchMissing \ DaysWith("ERROR")) \subseteq DaysWith("OK")
    /\ Len(get_missing_trading_days(store, today, WATCHLIST[i], days_needed)) = 1

\* the watchlist of the script that is running
Watchlist == IF script = "run_live" THEN rl_WATCHLIST ELSE WATCHLIST

\* the OHLCV values the store must hold for a provider bar
StoredBar(q) ==
    [date |-> q.from_, open_price |-> Round2(q.open), high_price |-> Round2(q.high),
     low_price |-> Round2(q.low), close_price |-> Round2(q.close), volume |-> q.volume]

\* C5: upserting a bar for a (symbol, date) that is stored already leaves one
\* row for the key, with the values of the second write; the store never holds
\* two rows for one (symbol, date)
C5_UpsertIdempotent ==
    /\ Cardinality({<<r.symbol, r.date>> : r \in store}) = Cardinality(store)
    /\ (pc = "fetch" /\ calls # <<>> /\ Last(calls).outcome = "OK") =>
          {SelectOhlcv(r) : r \in {x \in store : x.symbol = Watchlist[i]
                                                 /\ x.date = Last(calls).day}}
             = {StoredBar(Quote(Watchlist[i], Last(calls).day, Last(calls).rev))}

\* the bar of a day that was stored before this batch has just been written
\* again, with revised prices
C5_Witness ==
    /\ script = "update_db" /\ pc = "fetch"
    /\ missing_dates # <<>>
    /\ calls # <<>>
    /\ Last(calls).outcome = "OK"
    /\ Last(calls).rev = 1
    /\ Last(calls).day \notin Range(missing_dates)
    /\ \E r \in store : /\ r.symbol = WATCHLIST[i]
                        /\ r.date = Last(calls).day
                        /\ r.close_price = Round2(Quote(WATCHLIST[i], r.date, 1).close)
                        /\ r.close_price # Round2(Quote(WATCHLIST[i], r.date, 0).close)

\* the rows that carry an indicator value, with these values
IndicatorView(st) ==
    {<<r.symbol, r.date, r.btd_22, r.str_22>> :
        r \in {x \in st : x.btd_22 # NULL \/ x.str_22 # NULL}}

\* C6: fetch_ohlcv_data changes OHLCV fields only: when it upserts a bar for a
\* (symbol, date) that has a row, the indicator fields of that row stay as they are
C6_FetchKeepsIndicators ==
    [][(script = "update_db" /\ pc = "fetch")
          => IndicatorView(store) \subseteq IndicatorView(store')]_vars

\* C7: update_custom_indicators_for_symbol(symbol) modifies no row but the row
\* with max(date) of that symbol, and on that row only indicator columns
C7_IndicatorFrame ==
    [][(script = "calculate_indicators" /\ pc' # pc /\ store' # store) =>
          \E latest \in {max_date(store, symbols[i])} :
             /\ Cardinality(store') = Cardinality(store)
             /\ \A r \in store \ store' : r.symbol = symbols[i] /\ r.date = latest
             /\ \A n \in store' \ store :
                   \E r \in store \ store' :
                      \A c \in KeyColumns \cup OhlcvColumns : n[c] = r[c]]_vars

\* the engine has just written the latest row of a symbol that has older rows,
\* while another symbol has rows too
C7_Witness ==
    /\ script = "calculate_indicators" /\ pc = "str" /\ i <= Len(symbols)
    /\ \E r \in store : r.symbol = symbols[i] /\ r.btd_22 # NULL
    /\ \E r \in store : r.symbol = symbols[i] /\ r.btd_22 = NULL
    /\ \E r \in store : r.symbol # symbols[i]

IndicatorOf(r, col) == IF col \in DOMAIN r THEN r[col] ELSE NULL

Name(prefix, p) ==
    IF prefix = "btd"
    THEN (IF p = 22 THEN "btd_22" ELSE IF p = 66 THEN "btd_66" ELSE "btd_132")
    ELSE (IF p = 22 THEN "str_22" ELSE IF p = 66 THEN "str_66" ELSE "str_132")

\* C8: for p in {22, 66, 132}, when fewer than p + 1 bars are stored for a
\* symbol, btd_p and str_p of its latest row are null, and the engine does not
\* write them
C8_NullWhenShort ==
    \A s \in Range(WATCHLIST) : \A p \in CalcPeriods :
       \A D \in {Dates(store, s)} :
          (D # {} /\ Cardinality(D) < p + 1) =>
             /\ \A latest \in {SetMax(D)} :
                   \A r \in {x \in store : x.symbol = s /\ x.date = latest} :
                      /\ IndicatorOf(r, Name("btd", p)) = NULL
                      /\ IndicatorOf(r, Name("str", p)) = NULL
             /\ (script = "calculate_indicators" /\ i <= Len(symbols) /\ symbols[i] = s)
                   => /\ Name("btd", p) \notin DOMAIN update_fields
                      /\ Name("str", p) \notin DOMAIN update_fields

\* the engine has written btd_22 and str_22 for a symbol with fewer than 67 bars
C8_Witness ==
    /\ script = "calculate_indicators" /\ pc = "btd" /\ i > 1
    /\ \E r \in store : /\ r.symbol = symbols[i - 1]
                        /\ r.btd_22 # NULL /\ r.str_22 # NULL
    /\ Cardinality(Dates(store, symbols[i - 1])) < 67

\* the closes of the period bars before the latest bar of calc_df
WindowCloses ==
    {calc_df[j].close_price : j \in (Len(calc_df) - calc_period)..(Len(calc_df) - 1)}

CalcDone == calc_out # <<>> /\ Len(calc_df) >= calc_period + 1

\* C9: calculate_btd_str does not raise on a zero or non-positive denominator:
\* BTD_p is null exactly when the lowest close of the p prior bars is not > 0,
\* STR_p is null exactly when their highest close is not > 0, each
\* independently of the other, and no value is an infinity
C9_NullOnBadDenominator ==
    CalcDone =>
       /\ (calc_out[1] = NULL) <=> (\E c \in WindowCloses : c <= 0)
       /\ (calc_out[2] = NULL) <=> (\A c \in WindowCloses : c <= 0)
       /\ calc_out[1] \notin {Some(Inf), Some(-Inf)}
       /\ calc_out[2] \notin {Some(Inf), Some(-Inf)}

\* the lowest close is zero, the highest is positive: BTD null, STR computed
C9_Witness ==
    /\ CalcDone
    /\ 0 \in WindowCloses
    /\ \E c \in WindowCloses : c > 0
    /\ calc_out[1] = NULL
    /\ calc_out[2] # NULL

\* v is x / y * 100 rounded to two decimals, y > 0 (v in hundredths of a percent)
IsRoundedPct(v, x, y) ==
    LET diff == v * y - x * 10000
    IN  2 * diff <= y /\ -2 * diff <= y

\* C10: for a series of at least p + 1 bars, oldest first, calculate_btd_str
\* takes the min and max close over exactly the p bars before the latest bar,
\* computes BTD_p from the latest high and STR_p from the latest low; prior
\* min 90, max 120, high 95, low 110 give BTD 5.56 and STR -8.33
C10_WindowExcludesCurrent ==
    CalcDone =>
       \A lo \in {SetMin(WindowCloses)}, hi \in {SetMax(WindowCloses)},
          cur \in {calc_df[Len(calc_df)]} :
          /\ lo > 0 => /\ calc_out[1] # NULL
                       /\ IsRoundedPct(calc_out[1][1], cur.high_price - lo, lo)
          /\ hi > 0 => /\ calc_out[2] # NULL
                       /\ IsRoundedPct(calc_out[2][1], cur.low_price - hi, hi)
          /\ (lo = 9000 /\ hi = 12000 /\ cur.high_price = 9500 /\ cur.low_price = 11000)
                => calc_out = <<Some(556), Some(-833)>>

\* the worked example
C10_Witness ==
    /\ CalcDone
    /\ SetMin(WindowCloses) = 9000
    /\ SetMax(WindowCloses) = 12000
    /\ calc_df[Len(calc_df)].high_price = 9500
    /\ calc_df[Len(calc_df)].low_price = 11000
    /\ calc_df[Len(calc_df)].close_price < 9000
    /\ calc_out = <<Some(556), Some(-833)>>

\* C11: the required day-set of gap detection has exactly N dates, ending at
\* the most recent session strictly before the as-of date; a calendar window
\* with fewer than N sessions is widened until N sessions are found, and gap
\* detection never continues with fewer than N dates
C11_ExactlyNRequired ==
    cal_out # <<>> =>
       /\ Len(cal_out[1]) = cal_n
       /\ \A d \in Last(cal_out[1])..(today - 1) : IsTradingDay(d) => d = Last(cal_out[1])

\* the symbols the running script loops over
Universe == IF script = "update_db" THEN WATCHLIST ELSE symbols

\* the running script ends by itself (main_script has not killed it)
ScriptExits == script # "none" /\ script' = "none" /\ ms_pc' = ms_pc

\* C12: an exception raised while one symbol is processed is caught at a
\* per-symbol boundary: when the run of update_db or calculate_indicators ends,
\* every symbol after a failing one in the universe has been processed
C12_PerSymbolBoundary ==
    [][(script \in {"update_db", "calculate_indicators"} /\ ScriptExits
          /\ raised # {})
         => \A j \in 1..Len(Universe) :
               (\E f \in 1..(j - 1) : Universe[f] \in raised) => j < i]_vars

\* C13: a storage failure on upsert ends the backfill of the symbol: no
\* provider call of the batch follows the day whose upsert failed
C13_StorageErrorEndsBackfill ==
    (script = "update_db" /\ pc = "fetch") =>
       \A j \in 1..(Len(calls) - 1) : calls[j].outcome # "STORAGE_ERROR"

\* C14: every date stored by the fetch loops is a valid trading day of the
\* calendar: no stored bar carries a weekend or holiday date
C14_OnlyTradingDaysStored == \A r \in store : IsTradingDay(r.date)

\* a symbol has the bars of all the trading days of a fetched range that holds
\* a weekend and a holiday, and no other bar in that range
C14_Witness ==
    /\ pc = "idle"
    /\ \E s \in Range(WATCHLIST) :
          /\ Dates(store, s) \cap (382..392) = {d \in 382..392 : IsTradingDay(d)}
          /\ \E d \in 382..392 : d % 7 \in {5, 6}
          /\ \E d \in 382..392 : d \in Holidays
          /\ {382, 392} \subseteq Dates(store, s)

\* C15: the table holds every column the pipeline writes: no UPDATE issued by
\* the indicator engine names a column that is absent from the table
C15_UpdateNamesTableColumns ==
    (script = "calculate_indicators" /\ pc \in {"btd_update", "str_update"})
       => DOMAIN update_fields \subseteq TableColumns

\* calculate_indicators.main ends: after its loop, or at once when the table
\* has no symbol
IndicatorsEnds ==
    \/ script = "calculate_indicators" /\ ScriptExits
    \/ /\ script = "none" /\ script' = "none"
       /\ runs' # runs
       /\ exit_code'.script = "calculate_indicators"

\* C16: calculate_indicators.main reports success (success status logged and
\* exit code 0) if and only if at least one symbol was processed without
\* raising; symbols that fail do not by themselves make the run fail
C16_SuccessIffOneProcessed ==
    [][IndicatorsEnds =>
          ((exit_code'.success /\ exit_code'.code = 0)
              <=> (\E s \in DistinctSymbols(store) : s \notin raised'))]_vars

\* a run in which one symbol raised and another was processed has ended with
\* success
C16_Witness ==
    /\ script = "none" /\ pc = "idle"
    /\ exit_code # <<>>
    /\ exit_code.script = "calculate_indicators"
    /\ exit_code.success /\ exit_code.code = 0
    /\ raised # {}
    /\ DistinctSymbols(store) \ raised # {}

\* C17: main_script starts update_db, calculate_indicators and send_telegram in
\* that order, one at a time; a script is started only after every earlier
\* critical script has exited with return code 0, so the failure of a critical
\* script (non-zero exit, timeout, missing file, exception) is the last entry
C17_OrderedCriticalGate ==
    ms_pc # "off" =>
       /\ Len(ms_log) <= Len(EXECUTION_ORDER)
       /\ \A j \in 1..Len(ms_log) :
             /\ ms_log[j].script = EXECUTION_ORDER[j].script
             /\ \A n \in 1..(j - 1) :
                   /\ ms_log[n].state # "running"
                   /\ EXECUTION_ORDER[n].critical
                         => (ms_log[n].state = "exited" /\ ms_log[n].returncode = 0)
       /\ script # "none" =>
             /\ ms_pc = "child"
             /\ ms_log # <<>>
             /\ Last(ms_log).script = script
             /\ Last(ms_log).state = "running"

\* send_telegram has been started after update_db and calculate_indicators
\* exited with return code 0
C17_Witness ==
    /\ ms_pc = "child"
    /\ Len(ms_log) = Len(EXECUTION_ORDER)
    /\ ms_log[1].returncode = 0
    /\ ms_log[2].returncode = 0
    /\ Last(ms_log).script = "send_telegram"

\* C18: for a symbol that has stored bars the provider is called only for the
\* days gap detection reported missing; a stored day is never fetched again,
\* also when it lies between two missing days
C18_OnlyMissingDaysFetched ==
    (script = "update_db" /\ pc = "fetch" /\ missing_dates # <<>>)
       => \A j \in 1..Len(calls) : calls[j].day \in Range(missing_dates)

\* C19: within one backfill the provider is invoked for the days in ascending
\* date order: after k provider calls the days attempted are exactly the k
\* oldest days of the batch
C19_OldestFirst ==
    (script = "update_db" /\ pc = "fetch") =>
       \A batch \in {sort_values(Range(trading_days))} :
          /\ Len(calls) <= Len(batch)
          /\ \A j \in 1..Len(calls) : calls[j].day = batch[j]

\* a backfill of several days is under way, some days done and some to do
C19_Witness ==
    /\ script = "update_db" /\ pc = "fetch"
    /\ Len(calls) >= 2
    /\ Len(calls) < Len(trading_days)
    /\ calls[1].day < calls[2].day
    /\ \E j \in 1..Len(calls) : calls[j].outcome # "OK"

\* the last required trading day
LastRequired == Last(required_trading_days(today, days_needed))

\* the statement of C20 as it stands: latest stored date = last required
\* trading day and at least windowSize stored dates give an empty result
C20_Original ==
    pc = "idle" =>
       \A s \in Range(WATCHLIST) : \A D \in {Dates(store, s)} :
          (Cardinality(D) >= days_needed /\ SetMax(D) = LastRequired)
             => get_missing_trading_days(store, today, s, days_needed) = <<>>

\* C20: if a symbol's latest stored date equals the last required trading day
\* and its windowSize most recent stored dates are all required trading days,
\* get_missing_trading_days returns the empty list
C20_UpToDateFastPath ==
    pc = "idle" =>
       \A s \in Range(WATCHLIST) : \A have \in {RecentDates(store, s, days_needed)} :
          (/\ Cardinality(have) >= days_needed
           /\ SetMax(have) = LastRequired
           /\ have \subseteq Range(required_trading_days(today, days_needed)))
             => get_missing_trading_days(store, today, s, days_needed) = <<>>

\* a symbol with more stored dates than the window is up to date
C20_Witness ==
    /\ pc = "idle"
    /\ \E s \in Range(WATCHLIST) :
          /\ Cardinality(Dates(store, s)) > days_needed
          /\ SetMax(Dates(store, s)) = LastRequired
          /\ RecentDates(store, s, days_needed)
                \subseteq Range(required_trading_days(today, days_needed))
          /\ get_missing_trading_days(store, today, s, days_needed) = <<>>

\* C21: in a run of main_script the Indicator Engine computes indicators only
\* for symbols whose gap detection and fetch have run in that run, that is for
\* symbols update_db has processed
C21_FetchBeforeCompute ==
    (ms_pc = "child" /\ script = "calculate_indicators")
       => Range(symbols) \subseteq Range(WATCHLIST)

\* the provider has just answered a call of fetch_ohlcv_data with outcome o
Answered(o) ==
    /\ InFetch("update_db")
    /\ Len(calls') = Len(calls) + 1
    /\ Last(calls').outcome = o

\* C22: when the provider returns a non-OK status for a day, no row is written
\* or changed, the day is not counted as succeeded, the batch goes on with the
\* next day, and a day of the batch's missing days is reported missing again
\* by the gap detection that follows the batch
C22_NoDataIsSkipped ==
    [][/\ Answered("NOT_FOUND") =>
             /\ store' = store
             /\ successful_updates' = successful_updates
             /\ pc' = "fetch" /\ k' = k + 1 /\ trading_days' = trading_days
       /\ (InFetch("update_db") /\ k' > Len(trading_days')) =>
             \A skipped \in {{calls'[j].day : j \in {n \in 1..Len(calls') :
                                  calls'[n].outcome = "NOT_FOUND"}} \cap BatchMissing} :
                skipped # {} =>
                   skipped \subseteq
                      Range(get_missing_trading_days(store', today, WATCHLIST[i],
                                                     days_needed))]_vars

\* a batch has ended in which a missing day had no data and later days were
\* stored; gap detection reports the day again
C22_Witness ==
    /\ FetchEnded
    /\ successful_updates > 0
    /\ \E j \in 1..(Len(calls) - 1) :
          /\ calls[j].outcome = "NOT_FOUND"
          /\ calls[j + 1].outcome = "OK"
          /\ calls[j].day \in BatchMissing
          /\ calls[j].day \in Range(get_missing_trading_days(store, today, WATCHLIST[i],
                                                             days_needed))

SymbolStep ==
    /\ script = "update_db" /\ pc = "symbol" /\ i <= Len(WATCHLIST)
    /\ \/ pc' = "fetch"
       \/ pc' = "symbol" /\ i' = i + 1

\* the trading days of the 365 calendar days that end the day before the run
YearBefore(now) == sort_values({d \in (now - 365)..(now - 1) : IsTradingDay(d)})

\* C24: a symbol is treated as new if and only if it has no stored bar; for a
\* new symbol update_ohlcv_data runs no gap detection and requests every
\* trading day of the 365 calendar days ending the day before the run; for a
\* symbol with bars the days requested come from the gap detection over the
\* 150-trading-day window
C24_NewSymbolBackfill ==
    [][SymbolStep =>
          IF Dates(store, WATCHLIST[i]) = {}
          THEN /\ pc' = "fetch"
               /\ missing_dates' = <<>>
               /\ trading_days' = YearBefore(today)
               /\ Len(trading_days') = Cardinality((today - 365)..(today - 1))
                                          - Cardinality({d \in (today - 365)..(today - 1) :
                                                            ~IsTradingDay(d)})
          ELSE \A req \in {Range(required_trading_days(today, days_needed))} :
                  \A missing \in {req \ RecentDates(store, WATCHLIST[i], days_needed)} :
                     IF pc' = "fetch"
                     THEN /\ missing # {}
                          /\ Range(missing_dates') = missing
                          /\ missing \subseteq Range(trading_days')
                          /\ Range(trading_days') \subseteq req
                     ELSE missing = {}]_vars

\* the backfill of a new symbol has started while another symbol has bars
C24_Witness ==
    /\ script = "update_db" /\ pc = "fetch" /\ k = 1
    /\ Dates(store, WATCHLIST[i]) = {}
    /\ missing_dates = <<>>
    /\ Len(trading_days) > days_needed
    /\ trading_days[1] >= today - 365
    /\ Last(trading_days) <= today - 1
    /\ \E r \in store : r.symbol # WATCHLIST[i]

\* the latest bar of calc_df
CalcCurrentDay == calc_df[Len(calc_df)]

\* the statement of C25 as it stands: a computed BTD_p is < 0 if and only if
\* the current high is strictly below the lowest close of the p prior bars, a
\* computed STR_p is > 0 if and only if the current low is strictly above
\* their highest close
C25_Original ==
    CalcDone =>
       /\ calc_out[1] # NULL
             => (calc_out[1][1] < 0 <=> CalcCurrentDay.high_price < SetMin(WindowCloses))
       /\ calc_out[2] # NULL
             => (calc_out[2][1] > 0 <=> CalcCurrentDay.low_price > SetMax(WindowCloses))

\* C25: a computed BTD_p is < 0 if and only if the current high is below the
\* lowest close of the p prior bars by more than 0.005 % of that close, and a
\* computed STR_p is > 0 if and only if the current low is above their highest
\* close by more than 0.005 % of it; a smaller distance rounds to zero
C25_SignAfterRounding ==
    CalcDone =>
       \A lo \in {SetMin(WindowCloses)}, hi \in {SetMax(WindowCloses)} :
          /\ calc_out[1] # NULL =>
                /\ calc_out[1][1] < 0 <=> 20000 * (lo - CalcCurrentDay.high_price) > lo
                /\ calc_out[1][1] < 0 => CalcCurrentDay.high_price < lo
          /\ calc_out[2] # NULL =>
                /\ calc_out[2][1] > 0 <=> 20000 * (CalcCurrentDay.low_price - hi) > hi
                /\ calc_out[2][1] > 0 => CalcCurrentDay.low_price > hi

\* the high is 0.02 under a lowest close of 300.00: BTD is -0.01
C25_Witness ==
    /\ CalcDone
    /\ SetMin(WindowCloses) = 30000
    /\ CalcCurrentDay.high_price = 29998
    /\ calc_out[1] = Some(-1)
    /\ calc_out[2] # NULL
    /\ calc_out[2][1] <= 0

\* C26: every chunk returned by split_long_message(message, max_length) has
\* length at most max_length, also for a message with a single line longer
\* than max_length
C26_ChunksWithinMaxLength ==
    sp_chunks # <<>> =>
       \A j \in 1..Len(sp_chunks[1]) : Len(sp_chunks[1][j]) <= sp_max_length

\* C27: ensure_22_days_data fetches the missing days oldest first: when it
\* calls the provider for a missing date, every missing date it has yet to
\* fetch is a later date
C27_EnsureOldestFirst ==
    (InFetch("run_live") /\ pending_dates # <<>>) =>
       /\ pending_dates[1] = trading_days[k]
       /\ \A j \in 2..Len(pending_dates) : pending_dates[j] > trading_days[k]

\* the entries of ms_log of scripts that did not exit with return code 0
FailedRuns ==
    {j \in 1..Len(ms_log) : ~(ms_log[j].state = "exited" /\ ms_log[j].returncode = 0)}

\* C28: main_script.main exits with code 0 only if every script of
\* EXECUTION_ORDER was run and exited with return code 0; every script that
\* fails, times out or is missing is in failed_scripts and is not counted in
\* success_count
C28_SuccessMeansAllRan ==
    [][(ms_pc # "off" /\ ms_pc' = "off") =>
          /\ exit_code'.code = 0
                => (Len(ms_log) = Len(EXECUTION_ORDER) /\ FailedRuns = {})
          /\ \A j \in FailedRuns : ms_log[j].script \in Range(failed_scripts)
          /\ success_count = Len(ms_log) - Cardinality(FailedRuns)]_vars

\* C29: the indicator values the engine writes for a symbol land on the row
\* whose high and low were the current day of the computation, also when a
\* fetch process upserts a newer bar of the symbol between the read and the
\* UPDATE
C29_UpdateOnRowRead ==
    [][(script = "calculate_indicators" /\ pc \in {"btd_update", "str_update"}
          /\ pc' # pc /\ store' # store)
         => \A r \in store' \ store : r.symbol = symbols[i] /\ r.date = df_latest]_vars

\* the table that holds the series df as the rows of one symbol
StoredSeries(df, symbol) ==
    {[symbol |-> symbol, date |-> df[j].date, open_price |-> df[j].open_price,
      high_price |-> df[j].high_price, low_price |-> df[j].low_price,
      close_price |-> df[j].close_price, volume |-> df[j].volume,
      btd_22 |-> NULL, str_22 |-> NULL] : j \in 1..Len(df)}

\* C30: on every stored series calculate_btd_str(symbol) of run_live.py and
\* calculate_btd_str(df, 22) of calculate_indicators.py agree: no value with
\* fewer than 23 bars, otherwise the same BTD_22 and STR_22, and run_live does
\* not raise
C30_RunLiveAgrees ==
    (calc_out # <<>> /\ calc_period = 22) =>
       \A out \in {rl_calculate_btd_str(StoredSeries(calc_df, WATCHLIST[1]), WATCHLIST[1])} :
          /\ ~out.raised
          /\ <<out.btd_22, out.str_22>> = calc_out

====
